---- MODULE Spec2Model ----
(***************************************************************************)
(* Model of the ink! contract SimpleToken (src/lib.rs): a fungible-token   *)
(* ledger with owner-only minting, allowances, pause and blacklist.        *)
(*                                                                         *)
(* Every message of the contract is one action.  A message runs to its end *)
(* on the storage it finds (no interleaving), returns Result<(), Error>    *)
(* and emits events; the returned value and the events of the call are     *)
(* kept in `last` and `emitted` until the call has returned to its caller  *)
(* (action Return), after which the next message is dispatched.            *)
(*                                                                         *)
(* Balance is u128 in the code.  The model keeps the width as MaxBalance   *)
(* (the largest Balance) and Modulus = MaxBalance + 1.  The additions and  *)
(* subtractions the code writes with `+`, `+=`, `-`, `-=` are unchecked    *)
(* in the source: a build with overflow checks traps on overflow (the      *)
(* call is reverted), a build without them wraps around.  Which of the two *)
(* the build is, is the constant-in-time variable overflow_checks.         *)
(***************************************************************************)
EXTENDS Integers, Sequences, FiniteSets, TLC

\* ------------------------------------------------------------------ bounds
\* Largest value of the Balance type (u128::MAX in the code).
MaxBalance == 2
\* Longest recipients vector handed to batch_transfer.
MaxRecipients == 2

Modulus == MaxBalance + 1

\* ------------------------------------------------------------------ inputs
Accounts == {"alice", "bob", "carol"}
\* Account ids are opaque and interchangeable: one deployer stands for any.
Deployers == {"alice"}
\* Accounts handed to add_to_blacklist / remove_from_blacklist.
BlacklistInputs == {"bob"}
\* (caller, spender) pairs of the approve calls: an approval of another
\* account and an approval of oneself, both to the spender bob.
ApproveInputs == {<<"alice", "bob">>, <<"bob", "bob">>}
\* Amounts handed to the messages: zero, one and the largest Balance.
AmountInputs == {0, 1, MaxBalance}
\* Amounts handed to approve: a revocation and an approval that can be
\* spent in part.
ApproveAmounts == {0, 2}
\* Callers of transfer_from: the approved spender and an account nobody approved.
SpenderCallers == {"bob", "carol"}
\* Recipient vectors handed to batch_transfer.
RecipientAccounts == {"alice", "bob"}
RecipientInputs == UNION {[1..n -> RecipientAccounts] : n \in 0..MaxRecipients}

NoAccount == "none"

VARIABLES
    balances,         \* Mapping<AccountId, Balance>; an absent key reads 0
    owner,            \* AccountId
    total_supply,     \* Balance
    allowances,       \* Mapping<(AccountId, AccountId), Balance>; absent reads 0
    paused,           \* bool
    blacklist,        \* Mapping<AccountId, bool>: the keys stored with true
    overflow_checks,  \* whether the build traps on arithmetic overflow
    last,             \* the call being returned: message, caller, arguments, result
    emitted           \* events emitted by that call, in order

ledger == <<balances, owner, total_supply, allowances, paused, blacklist>>
vars == <<balances, owner, total_supply, allowances, paused, blacklist,
          overflow_checks, last, emitted>>

\* ------------------------------------------------------------------ types
ErrorKinds == {"InsufficientBalance", "NotOwner", "InsufficientAllowance",
               "ContractPaused", "AddressBlacklisted", "InvalidAmount"}

TransferEvent(from, to, value) ==
    [event |-> "Transfer", from |-> from, to |-> to, value |-> value]
MintEvent(to, value) ==
    [event |-> "Mint", from |-> NoAccount, to |-> to, value |-> value]
ApprovalEvent(own, spender, value) ==
    [event |-> "Approval", from |-> own, to |-> spender, value |-> value]

\* The storage struct (lines 52-66): the type of each field.
TypeOK ==
    /\ balances \in [Accounts -> 0..MaxBalance]
    /\ owner \in Accounts
    /\ total_supply \in 0..MaxBalance
    /\ allowances \in [Accounts \X Accounts -> 0..MaxBalance]
    /\ paused \in BOOLEAN
    /\ blacklist \subseteq Accounts
    /\ overflow_checks \in BOOLEAN

\* ------------------------------------------------------------------ readers
balance_of(account) == balances[account]
allowance(own, spender) == allowances[<<own, spender>>]
is_paused == paused
is_blacklisted(address) == address \in blacklist

\* ------------------------------------------------------------------ arithmetic
\* An unchecked u128 operation whose exact result is x: it traps when the
\* build checks overflow and x is out of range, and otherwise stores Wrap(x).
Traps(x) == overflow_checks /\ (x < 0 \/ x > MaxBalance)
Wrap(x) == x % Modulus

\* ------------------------------------------------------------------ outcomes
\* What a message leaves behind: its result, the storage and its events.
Outcome(res, bal, supply, allow, p, bl, ev) ==
    [res |-> res, balances |-> bal, total_supply |-> supply, allowances |-> allow,
     paused |-> p, blacklist |-> bl, events |-> ev]
\* return Err(e): every Err of the code is returned before the first write.
Err(e) == Outcome(e, balances, total_supply, allowances, paused, blacklist, <<>>)
\* An arithmetic trap: the host reverts the call, storage and events included.
Trap == Outcome("Panic", balances, total_supply, allowances, paused, blacklist, <<>>)
\* Ok(()) with the balances written and the events emitted.
OkBalances(bal, supply, ev) ==
    Outcome("Ok", bal, supply, allowances, paused, blacklist, ev)

\* ------------------------------------------------------------------ messages
\* Each message is its early returns (the `_check`: the first Err the code
\* returns, or "Ok" when it returns none) followed by its writes (the
\* `_effect`, which is reached only when no Err was returned).

\* mint, lines 84-87: the owner gate.
mint_check(caller, to, amount) ==
    IF caller # owner THEN "NotOwner" ELSE "Ok"

\* mint, lines 88-98: two unchecked additions, then the two events.
mint_effect(caller, to, amount) ==
    LET current_balance == balance_of(to)
        new_balance == current_balance + amount
        new_supply == total_supply + amount
    IN  IF Traps(new_balance) \/ Traps(new_supply) THEN Trap
        ELSE OkBalances([balances EXCEPT ![to] = Wrap(new_balance)],
                        Wrap(new_supply),
                        <<MintEvent(to, amount), TransferEvent(NoAccount, to, amount)>>)

mint(caller, to, amount) ==
    IF mint_check(caller, to, amount) # "Ok" THEN Err(mint_check(caller, to, amount))
    ELSE mint_effect(caller, to, amount)

\* Mutant of transfer_check: the amount is tested before the blacklist.
transfer_check_amount_first(caller, to, amount) ==
    IF paused THEN "ContractPaused"
    ELSE IF amount = 0 THEN "InvalidAmount"
    ELSE IF is_blacklisted(caller) \/ is_blacklisted(to) THEN "AddressBlacklisted"
    ELSE IF balance_of(caller) < amount THEN "InsufficientBalance"
    ELSE "Ok"

\* Mutant of transfer_check: only the caller is looked up in the blacklist.
transfer_check_sender_only(caller, to, amount) ==
    IF paused THEN "ContractPaused"
    ELSE IF is_blacklisted(caller) THEN "AddressBlacklisted"
    ELSE IF amount = 0 THEN "InvalidAmount"
    ELSE IF balance_of(caller) < amount THEN "InsufficientBalance"
    ELSE "Ok"

\* transfer, lines 108-126.
transfer_check(caller, to, amount) ==
    IF paused THEN "ContractPaused"
    ELSE IF is_blacklisted(caller) \/ is_blacklisted(to) THEN "AddressBlacklisted"
    ELSE IF amount = 0 THEN "InvalidAmount"
    ELSE IF balance_of(caller) < amount THEN "InsufficientBalance"
    ELSE "Ok"

\* Mutant of transfer_effect: the receiver's balance is read before the
\* sender's is written, so a transfer to oneself credits without debiting.
transfer_effect_stale_read(caller, to, amount) ==
    LET caller_balance == balance_of(caller)
        receiver_balance == balance_of(to)
        new_receiver == receiver_balance + amount
    IN  IF Traps(new_receiver) THEN Trap
        ELSE OkBalances([[balances EXCEPT ![caller] = caller_balance - amount]
                            EXCEPT ![to] = Wrap(new_receiver)],
                        total_supply, <<TransferEvent(caller, to, amount)>>)

\* transfer, lines 128-138.  The receiver's balance is read after the sender's
\* has been written, so a transfer to oneself reads the lowered value.
transfer_effect(caller, to, amount) ==
    LET caller_balance == balance_of(caller)
        bal1 == [balances EXCEPT ![caller] = caller_balance - amount]
        receiver_balance == bal1[to]
        new_receiver == receiver_balance + amount
    IN  IF Traps(new_receiver) THEN Trap
        ELSE OkBalances([bal1 EXCEPT ![to] = Wrap(new_receiver)], total_supply,
                        <<TransferEvent(caller, to, amount)>>)

transfer(caller, to, amount) ==
    IF transfer_check(caller, to, amount) # "Ok"
    THEN Err(transfer_check(caller, to, amount))
    ELSE transfer_effect(caller, to, amount)

\* Mutant of approve: the amount is added to the entry instead of replacing it.
approve_adding(caller, spender, amount) ==
    Outcome("Ok", balances, total_supply,
            [allowances EXCEPT ![<<caller, spender>>] = Wrap(@ + amount)],
            paused, blacklist, <<ApprovalEvent(caller, spender, amount)>>)

\* approve, lines 149-160: overwrites the entry; no check at all.
approve(caller, spender, amount) ==
    Outcome("Ok", balances, total_supply,
            [allowances EXCEPT ![<<caller, spender>>] = amount],
            paused, blacklist, <<ApprovalEvent(caller, spender, amount)>>)

\* Mutant of transfer_from_check: the spender's blacklist entry is consulted too.
transfer_from_check_spender_barred(caller, from, to, amount) ==
    IF paused THEN "ContractPaused"
    ELSE IF is_blacklisted(caller) \/ is_blacklisted(from) \/ is_blacklisted(to)
         THEN "AddressBlacklisted"
    ELSE IF amount = 0 THEN "InvalidAmount"
    ELSE IF allowance(from, caller) < amount THEN "InsufficientAllowance"
    ELSE IF balance_of(from) < amount THEN "InsufficientBalance"
    ELSE "Ok"

\* Mutant of transfer_from_check: the allowance is not compared with the amount.
transfer_from_check_no_allowance(caller, from, to, amount) ==
    IF paused THEN "ContractPaused"
    ELSE IF is_blacklisted(from) \/ is_blacklisted(to) THEN "AddressBlacklisted"
    ELSE IF amount = 0 THEN "InvalidAmount"
    ELSE IF balance_of(from) < amount THEN "InsufficientBalance"
    ELSE "Ok"

\* transfer_from, lines 176-198; caller is the spender.
transfer_from_check(caller, from, to, amount) ==
    IF paused THEN "ContractPaused"
    ELSE IF is_blacklisted(from) \/ is_blacklisted(to) THEN "AddressBlacklisted"
    ELSE IF amount = 0 THEN "InvalidAmount"
    ELSE IF allowance(from, caller) < amount THEN "InsufficientAllowance"
    ELSE IF balance_of(from) < amount THEN "InsufficientBalance"
    ELSE "Ok"

\* Mutant of transfer_from_effect: the allowance is not written.
transfer_from_effect_keeps_allowance(caller, from, to, amount) ==
    LET from_balance == balance_of(from)
        bal1 == [balances EXCEPT ![from] = from_balance - amount]
        to_balance == bal1[to]
        new_to == to_balance + amount
    IN  IF Traps(new_to) THEN Trap
        ELSE Outcome("Ok", [bal1 EXCEPT ![to] = Wrap(new_to)], total_supply,
                     allowances, paused, blacklist, <<TransferEvent(from, to, amount)>>)

\* transfer_from, lines 200-214.
transfer_from_effect(caller, from, to, amount) ==
    LET allowance_ == allowance(from, caller)
        from_balance == balance_of(from)
        allow1 == [allowances EXCEPT ![<<from, caller>>] = allowance_ - amount]
        bal1 == [balances EXCEPT ![from] = from_balance - amount]
        to_balance == bal1[to]
        new_to == to_balance + amount
    IN  IF Traps(new_to) THEN Trap
        ELSE Outcome("Ok", [bal1 EXCEPT ![to] = Wrap(new_to)], total_supply,
                     allow1, paused, blacklist, <<TransferEvent(from, to, amount)>>)

\* Mutant of transfer_from: the allowance is written before the balance check,
\* so the InsufficientBalance return leaves it lowered.
transfer_from_allowance_first(caller, from, to, amount) ==
    IF transfer_from_check(caller, from, to, amount) = "InsufficientBalance"
    THEN Outcome("InsufficientBalance", balances, total_supply,
                 [allowances EXCEPT ![<<from, caller>>] = @ - amount],
                 paused, blacklist, <<>>)
    ELSE IF transfer_from_check(caller, from, to, amount) # "Ok"
    THEN Err(transfer_from_check(caller, from, to, amount))
    ELSE transfer_from_effect(caller, from, to, amount)

transfer_from(caller, from, to, amount) ==
    IF transfer_from_check(caller, from, to, amount) # "Ok"
    THEN Err(transfer_from_check(caller, from, to, amount))
    ELSE transfer_from_effect(caller, from, to, amount)

\* Mutant of pause: the owner gate is missing.
pause_ungated(caller) ==
    Outcome("Ok", balances, total_supply, allowances, TRUE, blacklist, <<>>)

\* pause, lines 219-225.
pause(caller) ==
    IF caller # owner THEN Err("NotOwner")
    ELSE Outcome("Ok", balances, total_supply, allowances, TRUE, blacklist, <<>>)

\* unpause, lines 229-235.
unpause(caller) ==
    IF caller # owner THEN Err("NotOwner")
    ELSE Outcome("Ok", balances, total_supply, allowances, FALSE, blacklist, <<>>)

\* add_to_blacklist, lines 245-251.
add_to_blacklist(caller, address) ==
    IF caller # owner THEN Err("NotOwner")
    ELSE Outcome("Ok", balances, total_supply, allowances, paused,
                 blacklist \cup {address}, <<>>)

\* Mutant of remove_from_blacklist: the whole blacklist is cleared.
remove_from_blacklist_clearing(caller, address) ==
    IF caller # owner THEN Err("NotOwner")
    ELSE Outcome("Ok", balances, total_supply, allowances, paused, {}, <<>>)

\* remove_from_blacklist, lines 255-261.
remove_from_blacklist(caller, address) ==
    IF caller # owner THEN Err("NotOwner")
    ELSE Outcome("Ok", balances, total_supply, allowances, paused,
                 blacklist \ {address}, <<>>)

\* Mutant of batch_transfer_check: the pause gate is missing.
batch_transfer_check_no_pause(caller, recipients, amount) ==
    IF is_blacklisted(caller) THEN "AddressBlacklisted"
    ELSE IF \E i \in 1..Len(recipients) : is_blacklisted(recipients[i])
         THEN "AddressBlacklisted"
    ELSE IF amount = 0 THEN "InvalidAmount"
    ELSE IF amount * Len(recipients) > MaxBalance THEN "InsufficientBalance"
    ELSE IF balance_of(caller) < amount * Len(recipients) THEN "InsufficientBalance"
    ELSE "Ok"

\* Mutant of batch_transfer_check: the total is an unchecked product that
\* wraps around instead of checked_mul.
batch_transfer_check_wrapping_mul(caller, recipients, amount) ==
    IF paused THEN "ContractPaused"
    ELSE IF is_blacklisted(caller) THEN "AddressBlacklisted"
    ELSE IF \E i \in 1..Len(recipients) : is_blacklisted(recipients[i])
         THEN "AddressBlacklisted"
    ELSE IF amount = 0 THEN "InvalidAmount"
    ELSE IF balance_of(caller) < Wrap(amount * Len(recipients))
         THEN "InsufficientBalance"
    ELSE "Ok"

\* batch_transfer, lines 277-305.  checked_mul gives None when the product
\* does not fit the Balance width, and that is mapped to InsufficientBalance.
batch_transfer_check(caller, recipients, amount) ==
    IF paused THEN "ContractPaused"
    ELSE IF is_blacklisted(caller) THEN "AddressBlacklisted"
    ELSE IF \E i \in 1..Len(recipients) : is_blacklisted(recipients[i])
         THEN "AddressBlacklisted"
    ELSE IF amount = 0 THEN "InvalidAmount"
    ELSE IF amount * Len(recipients) > MaxBalance THEN "InsufficientBalance"
    ELSE IF balance_of(caller) < amount * Len(recipients) THEN "InsufficientBalance"
    ELSE "Ok"

\* Mutant of credit_recipients: an account listed more than once is credited
\* once only (at its last occurrence).
RECURSIVE credit_recipients_once(_, _, _)
credit_recipients_once(bal, recipients, amount) ==
    IF recipients = <<>> THEN [trapped |-> FALSE, balances |-> bal]
    ELSE LET recipient == Head(recipients)
             recipient_balance == bal[recipient]
             new_balance == recipient_balance + amount
         IN  IF \E i \in 2..Len(recipients) : recipients[i] = recipient
             THEN credit_recipients_once(bal, Tail(recipients), amount)
             ELSE IF Traps(new_balance) THEN [trapped |-> TRUE, balances |-> bal]
             ELSE credit_recipients_once([bal EXCEPT ![recipient] = Wrap(new_balance)],
                                         Tail(recipients), amount)

\* The second loop of batch_transfer, lines 311-321: each recipient in turn is
\* read and credited on the balances the previous ones left.
RECURSIVE credit_recipients(_, _, _)
credit_recipients(bal, recipients, amount) ==
    IF recipients = <<>> THEN [trapped |-> FALSE, balances |-> bal]
    ELSE LET recipient == Head(recipients)
             recipient_balance == bal[recipient]
             new_balance == recipient_balance + amount
         IN  IF Traps(new_balance) THEN [trapped |-> TRUE, balances |-> bal]
             ELSE credit_recipients([bal EXCEPT ![recipient] = Wrap(new_balance)],
                                    Tail(recipients), amount)

\* batch_transfer, lines 307-323: the sender is debited the whole total
\* first, then the recipients are credited, one Transfer event each.
batch_transfer_effect(caller, recipients, amount) ==
    LET total_amount == amount * Len(recipients)
        caller_balance == balance_of(caller)
        bal1 == [balances EXCEPT ![caller] = caller_balance - total_amount]
        credited == credit_recipients(bal1, recipients, amount)
    IN  IF credited.trapped THEN Trap
        ELSE OkBalances(credited.balances, total_supply,
                        [i \in 1..Len(recipients) |->
                            TransferEvent(caller, recipients[i], amount)])

\* Mutant of batch_transfer: one loop checks and credits, so the recipients
\* ahead of the first blacklisted one are credited before the Err is returned.
batch_transfer_single_loop(caller, recipients, amount) ==
    IF /\ ~paused /\ ~is_blacklisted(caller)
       /\ \E i \in 1..Len(recipients) : is_blacklisted(recipients[i])
    THEN LET first == CHOOSE i \in 1..Len(recipients) :
                          /\ is_blacklisted(recipients[i])
                          /\ \A j \in 1..(i - 1) : ~is_blacklisted(recipients[j])
             credited == credit_recipients(balances, SubSeq(recipients, 1, first - 1),
                                           amount)
         IN  Outcome("AddressBlacklisted", credited.balances, total_supply, allowances,
                     paused, blacklist, <<>>)
    ELSE IF batch_transfer_check(caller, recipients, amount) # "Ok"
    THEN Err(batch_transfer_check(caller, recipients, amount))
    ELSE batch_transfer_effect(caller, recipients, amount)

batch_transfer(caller, recipients, amount) ==
    IF batch_transfer_check(caller, recipients, amount) # "Ok"
    THEN Err(batch_transfer_check(caller, recipients, amount))
    ELSE batch_transfer_effect(caller, recipients, amount)

\* Mutant of burn_check: burn is given the gates of transfer.
burn_check_gated(caller, amount) ==
    IF paused THEN "ContractPaused"
    ELSE IF is_blacklisted(caller) THEN "AddressBlacklisted"
    ELSE IF amount = 0 THEN "InvalidAmount"
    ELSE IF balance_of(caller) < amount THEN "InsufficientBalance"
    ELSE "Ok"

\* burn, lines 329-338: no pause gate, no blacklist gate.
burn_check(caller, amount) ==
    IF amount = 0 THEN "InvalidAmount"
    ELSE IF balance_of(caller) < amount THEN "InsufficientBalance"
    ELSE "Ok"

\* burn, lines 340-349: the supply is lowered with an unchecked `-=`.
burn_effect(caller, amount) ==
    LET current_balance == balance_of(caller)
        new_supply == total_supply - amount
    IN  IF Traps(new_supply) THEN Trap
        ELSE OkBalances([balances EXCEPT ![caller] = current_balance - amount],
                        Wrap(new_supply),
                        <<TransferEvent(caller, NoAccount, amount)>>)

burn(caller, amount) ==
    IF burn_check(caller, amount) # "Ok" THEN Err(burn_check(caller, amount))
    ELSE burn_effect(caller, amount)

\* ------------------------------------------------------------------ state machine
Idle == [op |-> "idle", caller |-> NoAccount, from |-> NoAccount, to |-> NoAccount,
         recipients |-> <<>>, amount |-> 0, res |-> "Ok"]

CallRecord(op, caller, from, to, recipients, amount, res) ==
    [op |-> op, caller |-> caller, from |-> from, to |-> to,
     recipients |-> recipients, amount |-> amount, res |-> res]

\* new (lines 70-80): the constructing caller becomes the owner.
Init ==
    /\ \E caller \in Deployers :
          /\ owner = caller
          /\ last = CallRecord("new", caller, NoAccount, NoAccount, <<>>, 0, "Ok")
    /\ balances = [a \in Accounts |-> 0]
    /\ total_supply = 0
    /\ allowances = [k \in Accounts \X Accounts |-> 0]
    /\ paused = FALSE
    /\ blacklist = {}
    /\ overflow_checks \in BOOLEAN
    /\ emitted = <<>>

\* One message call: the storage becomes what the message leaves, and the
\* result and the events go to the caller.  No message writes `owner`.
Dispatch(op, caller, from, to, recipients, amount, out) ==
    /\ last.op = "idle"
    /\ balances' = out.balances
    /\ total_supply' = out.total_supply
    /\ allowances' = out.allowances
    /\ paused' = out.paused
    /\ blacklist' = out.blacklist
    /\ emitted' = out.events
    /\ last' = CallRecord(op, caller, from, to, recipients, amount, out.res)
    /\ UNCHANGED <<owner, overflow_checks>>

Mint ==
    \E caller \in Accounts, to \in Accounts, amount \in AmountInputs :
        Dispatch("mint", caller, NoAccount, to, <<>>, amount, mint(caller, to, amount))

Transfer ==
    \E caller \in Accounts, to \in Accounts, amount \in AmountInputs :
        Dispatch("transfer", caller, NoAccount, to, <<>>, amount,
                 transfer(caller, to, amount))

Approve ==
    \E pair \in ApproveInputs, amount \in ApproveAmounts :
        Dispatch("approve", pair[1], NoAccount, pair[2], <<>>, amount,
                 approve(pair[1], pair[2], amount))

TransferFrom ==
    \E caller \in SpenderCallers, from \in Accounts, to \in Accounts,
       amount \in AmountInputs :
        Dispatch("transfer_from", caller, from, to, <<>>, amount,
                 transfer_from(caller, from, to, amount))

Pause ==
    \E caller \in Accounts :
        Dispatch("pause", caller, NoAccount, NoAccount, <<>>, 0, pause(caller))

Unpause ==
    \E caller \in Accounts :
        Dispatch("unpause", caller, NoAccount, NoAccount, <<>>, 0, unpause(caller))

AddToBlacklist ==
    \E caller \in Accounts, address \in BlacklistInputs :
        Dispatch("add_to_blacklist", caller, NoAccount, address, <<>>, 0,
                 add_to_blacklist(caller, address))

RemoveFromBlacklist ==
    \E caller \in Accounts, address \in BlacklistInputs :
        Dispatch("remove_from_blacklist", caller, NoAccount, address, <<>>, 0,
                 remove_from_blacklist(caller, address))

BatchTransfer ==
    \E caller \in Accounts, recipients \in RecipientInputs, amount \in AmountInputs :
        Dispatch("batch_transfer", caller, NoAccount, NoAccount, recipients, amount,
                 batch_transfer(caller, recipients, amount))

Burn ==
    \E caller \in Accounts, amount \in AmountInputs :
        Dispatch("burn", caller, NoAccount, NoAccount, <<>>, amount, burn(caller, amount))

\* The call has returned: its result and events are with the caller.
Return ==
    /\ last.op # "idle"
    /\ last' = Idle
    /\ emitted' = <<>>
    /\ UNCHANGED <<balances, owner, total_supply, allowances, paused, blacklist,
                   overflow_checks>>

Next ==
    \/ Mint
    \/ Transfer
    \/ Approve
    \/ TransferFrom
    \/ Pause
    \/ Unpause
    \/ AddToBlacklist
    \/ RemoveFromBlacklist
    \/ BatchTransfer
    \/ Burn
    \/ Return

Spec == Init /\ [][Next]_vars

\* ------------------------------------------------------------------ blacklist
\* The same ledger driven with every account as the argument of
\* add_to_blacklist and remove_from_blacklist, so that several accounts are
\* listed at once; to keep the state space small the allowance messages and
\* batch_transfer are left out of this specification.
AddToBlacklistAny ==
    \E caller \in Accounts, address \in Accounts :
        Dispatch("add_to_blacklist", caller, NoAccount, address, <<>>, 0,
                 add_to_blacklist(caller, address))

RemoveFromBlacklistAny ==
    \E caller \in Accounts, address \in Accounts :
        Dispatch("remove_from_blacklist", caller, NoAccount, address, <<>>, 0,
                 remove_from_blacklist(caller, address))

NextBlacklist ==
    \/ AddToBlacklistAny
    \/ RemoveFromBlacklistAny
    \/ Mint
    \/ Transfer
    \/ Burn
    \/ Pause
    \/ Unpause
    \/ Return

SpecBlacklist == Init /\ [][NextBlacklist]_vars

\* ------------------------------------------------------------------ claims
\* Helpers of the formulas below.  A step that dispatches a message is a step
\* into a state whose `last` names the message: last' is the call, the
\* unprimed variables are the storage before it, the primed ones after it.
RECURSIVE SumOver(_, _)
SumOver(f, S) ==
    IF S = {} THEN 0
    ELSE LET a == CHOOSE x \in S : TRUE IN f[a] + SumOver(f, S \ {a})

Occurrences(recipients, r) ==
    Cardinality({i \in 1..Len(recipients) : recipients[i] = r})

Called(op) == last'.op = op
Succeeded(op) == last'.op = op /\ last'.res = "Ok"
StorageUnchanged ==
    UNCHANGED <<balances, owner, total_supply, allowances, paused, blacklist>>
OtherBalancesUnchanged(touched) ==
    \A a \in Accounts \ touched : balances'[a] = balances[a]

TransferFamily == {"transfer", "transfer_from", "batch_transfer"}
OwnerOnly == {"mint", "pause", "unpause", "add_to_blacklist", "remove_from_blacklist"}

\* C1: in every reachable state total_supply equals the sum of all balances.
C1_SupplyConservation ==
    total_supply = SumOver(balances, Accounts)

\* C2: a message that returns an error leaves balances, total_supply,
\* allowances, the paused flag, the blacklist and the owner as they were and
\* emits no event.
C2_AllOrNothing ==
    [][last'.res \in ErrorKinds => StorageUnchanged /\ emitted' = <<>>]_vars

\* C2 witness: transfer_from has passed the allowance check (the allowance is
\* what a careless order would already have lowered) and failed on the balance.
C2_Witness ==
    /\ last.op = "transfer_from"
    /\ last.res = "InsufficientBalance"
    /\ allowance(last.from, last.caller) >= last.amount

\* C3: the owner is the constructing caller and never changes; a call of an
\* owner-only message by anyone else returns NotOwner and changes nothing.
C3_OwnershipGate ==
    /\ [](last.op = "new" => owner = last.caller)
    /\ [][/\ owner' = owner
          /\ (last'.op \in OwnerOnly /\ last'.caller # owner)
                => (last'.res = "NotOwner" /\ StorageUnchanged /\ emitted' = <<>>)]_vars

\* C3 witness: a stranger's mint has been refused on a ledger in use.
C3_Witness ==
    /\ last.op = "mint"
    /\ last.caller # owner
    /\ last.res = "NotOwner"
    /\ last.amount > 0
    /\ total_supply > 0

\* C4: the paused flag is set by the owner's pause and cleared by the owner's
\* unpause and by nothing else; while it is set every transfer, transfer_from
\* and batch_transfer returns ContractPaused and changes nothing; while it is
\* clear none of them returns ContractPaused, and each succeeds when its
\* remaining preconditions hold.
C4_PauseGate ==
    [][/\ (Succeeded("pause") => paused')
       /\ (Succeeded("unpause") => ~paused')
       /\ (paused' # paused =>
              last'.op \in {"pause", "unpause"} /\ last'.res = "Ok"
              /\ last'.caller = owner)
       /\ (paused /\ last'.op \in TransferFamily =>
              last'.res = "ContractPaused" /\ StorageUnchanged /\ emitted' = <<>>)
       /\ (~paused /\ last'.op \in TransferFamily => last'.res # "ContractPaused")
       /\ (/\ ~paused /\ Called("transfer")
           /\ last'.caller \notin blacklist /\ last'.to \notin blacklist
           /\ last'.amount # 0 /\ balances[last'.caller] >= last'.amount
           => last'.res = "Ok")
       /\ (/\ ~paused /\ Called("transfer_from")
           /\ last'.from \notin blacklist /\ last'.to \notin blacklist
           /\ last'.amount # 0
           /\ allowances[<<last'.from, last'.caller>>] >= last'.amount
           /\ balances[last'.from] >= last'.amount
           => last'.res = "Ok")
       /\ (/\ ~paused /\ Called("batch_transfer")
           /\ last'.caller \notin blacklist
           /\ \A i \in 1..Len(last'.recipients) : last'.recipients[i] \notin blacklist
           /\ last'.amount # 0
           /\ last'.amount * Len(last'.recipients) <= MaxBalance
           /\ balances[last'.caller] >= last'.amount * Len(last'.recipients)
           => last'.res = "Ok")]_vars

\* C4 witness: a transfer that every other precondition would let through has
\* been refused on a paused ledger.
C4_Witness ==
    /\ paused
    /\ last.op = "transfer"
    /\ last.res = "ContractPaused"
    /\ last.caller \notin blacklist /\ last.to \notin blacklist
    /\ last.amount # 0
    /\ balances[last.caller] >= last.amount

\* C5: a mint by the owner whose balance or supply addition exceeds the
\* largest Balance returns an error and leaves balances and total_supply alone.
C5_MintOverflowChecked ==
    [][(/\ Called("mint") /\ last'.caller = owner
        /\ \/ balances[last'.to] + last'.amount > MaxBalance
           \/ total_supply + last'.amount > MaxBalance)
       => (/\ last'.res \in ErrorKinds
           /\ balances' = balances
           /\ total_supply' = total_supply)]_vars

\* C6 as stated: after a successful transfer(to, v) by A, A's balance is v
\* lower, to's balance is v higher, total_supply is unchanged.
C6_ZeroSumTransferAsStated ==
    [][Succeeded("transfer") =>
         /\ balances'[last'.caller] = balances[last'.caller] - last'.amount
         /\ balances'[last'.to] = balances[last'.to] + last'.amount
         /\ total_supply' = total_supply]_vars

\* C6 amended: after a successful transfer(to, v) by A with to # A, A's balance
\* is v lower and to's balance is v higher, reduced modulo the Balance range
\* where the sum does not fit it; with to = A every balance is unchanged; no
\* other balance and not total_supply changes.
C6_ZeroSumTransfer ==
    [][Succeeded("transfer") =>
         /\ total_supply' = total_supply
         /\ OtherBalancesUnchanged({last'.caller, last'.to})
         /\ IF last'.to = last'.caller
            THEN balances' = balances
            ELSE /\ balances'[last'.caller] = balances[last'.caller] - last'.amount
                 /\ balances'[last'.to] = Wrap(balances[last'.to] + last'.amount)
                 /\ (balances[last'.to] + last'.amount <= MaxBalance
                       => balances'[last'.to] = balances[last'.to] + last'.amount)]_vars

\* C6 witness: a transfer to another account that already held tokens succeeded.
C6_Witness ==
    /\ last.op = "transfer"
    /\ last.res = "Ok"
    /\ last.to # last.caller
    /\ balances[last.to] > last.amount

\* C7 as stated: after a successful transfer_from(A, B, v) by S the allowance
\* of S on A is v lower, A's balance is v lower and B's is v higher;
\* total_supply and every other allowance are unchanged.
C7_AllowanceDecrementAsStated ==
    [][Succeeded("transfer_from") =>
         /\ allowances'[<<last'.from, last'.caller>>]
               = allowances[<<last'.from, last'.caller>>] - last'.amount
         /\ balances'[last'.from] = balances[last'.from] - last'.amount
         /\ balances'[last'.to] = balances[last'.to] + last'.amount
         /\ total_supply' = total_supply
         /\ \A k \in DOMAIN allowances :
               k # <<last'.from, last'.caller>> => allowances'[k] = allowances[k]]_vars

\* C7 amended: after a successful transfer_from(A, B, v) by S the allowance of
\* S on A is exactly v lower and every other allowance and total_supply are
\* unchanged; with B # A, A's balance is v lower and B's is v higher, reduced
\* modulo the Balance range where the sum does not fit it; with B = A every
\* balance is unchanged; no other balance changes.
C7_AllowanceDecrement ==
    [][Succeeded("transfer_from") =>
         /\ allowances'[<<last'.from, last'.caller>>]
               = allowances[<<last'.from, last'.caller>>] - last'.amount
         /\ \A k \in DOMAIN allowances :
               k # <<last'.from, last'.caller>> => allowances'[k] = allowances[k]
         /\ total_supply' = total_supply
         /\ OtherBalancesUnchanged({last'.from, last'.to})
         /\ IF last'.to = last'.from
            THEN balances' = balances
            ELSE /\ balances'[last'.from] = balances[last'.from] - last'.amount
                 /\ balances'[last'.to] = Wrap(balances[last'.to] + last'.amount)
                 /\ (balances[last'.to] + last'.amount <= MaxBalance
                       => balances'[last'.to] = balances[last'.to] + last'.amount)]_vars

\* C7 witness: the spec's example in small: an approval spent in part by a
\* spender that is neither source nor recipient, another allowance standing.
C7_Witness ==
    /\ last.op = "transfer_from"
    /\ last.res = "Ok"
    /\ Cardinality({last.caller, last.from, last.to}) = 3
    /\ allowance(last.from, last.caller) > 0
    /\ \E k \in DOMAIN allowances : k # <<last.from, last.caller>> /\ allowances[k] > 0

\* C8: a batch_transfer that does not succeed leaves every balance as it was.
C8_BatchAtomicity ==
    [][(Called("batch_transfer") /\ last'.res # "Ok") => balances' = balances]_vars

\* C8 witness: a batch the caller could pay for has failed on a blacklisted
\* recipient that comes after a recipient that is not blacklisted.
C8_Witness ==
    /\ last.op = "batch_transfer"
    /\ last.res = "AddressBlacklisted"
    /\ Len(last.recipients) = 2
    /\ last.recipients[1] \notin blacklist
    /\ last.recipients[2] \in blacklist
    /\ last.caller \notin blacklist
    /\ last.amount # 0
    /\ balances[last.caller] >= last.amount * 2

\* C9 as stated: after a successful batch_transfer(recipients, v) every
\* account is credited v times its occurrences in recipients, and the caller's
\* balance is lower by v * count(recipients).
C9_DuplicateRecipientsAsStated ==
    [][Succeeded("batch_transfer") =>
         /\ \A r \in Accounts \ {last'.caller} :
               balances'[r] = balances[r] + last'.amount * Occurrences(last'.recipients, r)
         /\ balances'[last'.caller]
               = balances[last'.caller] - last'.amount * Len(last'.recipients)]_vars

\* C9 amended: after a successful batch_transfer(recipients, v) every account
\* other than the caller is v times its occurrences in recipients higher
\* (modulo the Balance range where the sum does not fit it), and the caller's
\* balance is lower by v * count(recipients) less v times the caller's own
\* occurrences in recipients; total_supply is unchanged.
C9_DuplicateRecipients ==
    [][Succeeded("batch_transfer") =>
         /\ \A r \in Accounts \ {last'.caller} :
               /\ balances'[r]
                     = Wrap(balances[r] + last'.amount * Occurrences(last'.recipients, r))
               /\ (balances[r] + last'.amount * Occurrences(last'.recipients, r)
                       <= MaxBalance
                     => balances'[r] = balances[r]
                            + last'.amount * Occurrences(last'.recipients, r))
         /\ balances'[last'.caller]
               = balances[last'.caller] - last'.amount * Len(last'.recipients)
                 + last'.amount * Occurrences(last'.recipients, last'.caller)
         /\ total_supply' = total_supply]_vars

\* C9 witness: batch_transfer([R, R], v) with v # 0 to another account succeeded.
C9_Witness ==
    /\ last.op = "batch_transfer"
    /\ last.res = "Ok"
    /\ Len(last.recipients) = 2
    /\ last.recipients[1] = last.recipients[2]
    /\ last.recipients[1] # last.caller
    /\ last.amount # 0

\* C10: a mint(A, v) by the owner succeeds for every v and raises total_supply
\* and A's balance by exactly v; a burn(v) by A with v # 0 and balance >= v
\* lowers both by exactly v; either leaves every other balance unchanged.
C10_MintBurnSymmetry ==
    [][/\ (Called("mint") /\ last'.caller = owner) =>
              /\ last'.res = "Ok"
              /\ total_supply' = total_supply + last'.amount
              /\ balances'[last'.to] = balances[last'.to] + last'.amount
              /\ OtherBalancesUnchanged({last'.to})
       /\ (Called("burn") /\ last'.amount # 0
             /\ balances[last'.caller] >= last'.amount) =>
              /\ last'.res = "Ok"
              /\ total_supply' = total_supply - last'.amount
              /\ balances'[last'.caller] = balances[last'.caller] - last'.amount
              /\ OtherBalancesUnchanged({last'.caller})]_vars

\* C11: burn(amount) returns InvalidAmount when amount = 0, otherwise
\* InsufficientBalance when the caller's balance is below amount, otherwise
\* Ok, whatever the paused flag and the caller's blacklist entry are.
C11_BurnUngated ==
    [][Called("burn") =>
         last'.res = IF last'.amount = 0 THEN "InvalidAmount"
                     ELSE IF balances[last'.caller] < last'.amount
                          THEN "InsufficientBalance"
                     ELSE "Ok"]_vars

\* C11 witness: a blacklisted caller has burnt tokens on a paused ledger.
C11_Witness ==
    /\ last.op = "burn"
    /\ last.res = "Ok"
    /\ paused
    /\ last.caller \in blacklist

\* C12: transfer(to, amount) returns the error of the first check that fails,
\* in the order paused, caller or `to` blacklisted, amount = 0, caller's
\* balance below amount; it returns Ok exactly when none of the four fails.
C12_TransferCheckOrder ==
    [][Called("transfer") =>
         last'.res = IF paused THEN "ContractPaused"
                     ELSE IF last'.caller \in blacklist \/ last'.to \in blacklist
                          THEN "AddressBlacklisted"
                     ELSE IF last'.amount = 0 THEN "InvalidAmount"
                     ELSE IF balances[last'.caller] < last'.amount
                          THEN "InsufficientBalance"
                     ELSE "Ok"]_vars

\* C12 witness: a transfer of amount 0 to a blacklisted recipient, by a caller
\* that holds nothing, has been answered with the blacklist error.
C12_Witness ==
    /\ last.op = "transfer"
    /\ last.res = "AddressBlacklisted"
    /\ last.to \in blacklist
    /\ last.caller \notin blacklist
    /\ last.amount = 0
    /\ balances[last.caller] = 0
    /\ ~paused

\* C13: transfer_from(from, to, amount) by spender S returns the error of the
\* first check that fails, in the order paused, `from` or `to` blacklisted,
\* amount = 0, allowance(from, S) below amount, balance of `from` below
\* amount, and Ok when none fails; whether S is blacklisted plays no part.
C13_TransferFromCheckOrder ==
    [][Called("transfer_from") =>
         last'.res = IF paused THEN "ContractPaused"
                     ELSE IF last'.from \in blacklist \/ last'.to \in blacklist
                          THEN "AddressBlacklisted"
                     ELSE IF last'.amount = 0 THEN "InvalidAmount"
                     ELSE IF allowances[<<last'.from, last'.caller>>] < last'.amount
                          THEN "InsufficientAllowance"
                     ELSE IF balances[last'.from] < last'.amount
                          THEN "InsufficientBalance"
                     ELSE "Ok"]_vars

\* C13 witness: a blacklisted spender has moved another account's tokens to a
\* third account.
C13_Witness ==
    /\ last.op = "transfer_from"
    /\ last.res = "Ok"
    /\ last.caller \in blacklist
    /\ last.caller \notin {last.from, last.to}

\* C14: batch_transfer(recipients, amount) returns the error of the first
\* check that fails, in the order paused, caller blacklisted, some recipient
\* blacklisted, amount = 0, amount * count(recipients) beyond the largest
\* Balance (InsufficientBalance), caller's balance below that product
\* (InsufficientBalance), and Ok when none fails.
C14_BatchCheckOrder ==
    [][Called("batch_transfer") =>
         last'.res = IF paused THEN "ContractPaused"
                     ELSE IF last'.caller \in blacklist THEN "AddressBlacklisted"
                     ELSE IF \E i \in 1..Len(last'.recipients) :
                                last'.recipients[i] \in blacklist
                          THEN "AddressBlacklisted"
                     ELSE IF last'.amount = 0 THEN "InvalidAmount"
                     ELSE IF last'.amount * Len(last'.recipients) > MaxBalance
                          THEN "InsufficientBalance"
                     ELSE IF balances[last'.caller]
                                < last'.amount * Len(last'.recipients)
                          THEN "InsufficientBalance"
                     ELSE "Ok"]_vars

\* C14 witness: the product overflows the Balance range while the caller
\* holds more than the product reduced modulo the range, and the call has
\* been answered with InsufficientBalance.
C14_Witness ==
    /\ last.op = "batch_transfer"
    /\ last.res = "InsufficientBalance"
    /\ last.amount * Len(last.recipients) > MaxBalance
    /\ balances[last.caller] >= Wrap(last.amount * Len(last.recipients))
    /\ balances[last.caller] > 0

\* C15: approve(spender, amount) by C always returns Ok, sets
\* allowance(C, spender) to amount and leaves every other allowance, all
\* balances, total_supply, the paused flag and the blacklist unchanged.
C15_ApproveUnconditional ==
    [][Called("approve") =>
         /\ last'.res = "Ok"
         /\ allowances'[<<last'.caller, last'.to>>] = last'.amount
         /\ \A k \in DOMAIN allowances :
               k # <<last'.caller, last'.to>> => allowances'[k] = allowances[k]
         /\ UNCHANGED <<balances, total_supply, paused, blacklist, owner>>]_vars

\* C15 witness: on a paused ledger a blacklisted caller has approved a
\* blacklisted spender while another allowance stands.
C15_Witness ==
    /\ last.op = "approve"
    /\ last.res = "Ok"
    /\ paused
    /\ last.caller \in blacklist
    /\ last.to \in blacklist
    /\ allowance(last.caller, last.to) = last.amount
    /\ \E k \in DOMAIN allowances : k # <<last.caller, last.to>> /\ allowances[k] > 0

\* C16: total_supply is left unchanged by every step of transfer,
\* transfer_from, batch_transfer, approve, pause, unpause, add_to_blacklist
\* and remove_from_blacklist; a mint step never lowers it and a burn step
\* never raises it.
C16_SupplyOnlyMintBurn ==
    [][/\ (last'.op \notin {"mint", "burn"} => total_supply' = total_supply)
       /\ (Called("mint") => total_supply' >= total_supply)
       /\ (Called("burn") => total_supply' <= total_supply)]_vars

\* C17: add_to_blacklist(A) by the owner returns Ok whether or not A is
\* listed and leaves A listed (a second application changes nothing);
\* remove_from_blacklist(A) by the owner returns Ok whether or not A is
\* listed and leaves A not listed; neither changes the entry of any other
\* account, nor anything else of the storage.
C17_IdempotentBlacklist ==
    [][/\ (Called("add_to_blacklist") /\ last'.caller = owner) =>
              /\ last'.res = "Ok"
              /\ last'.to \in blacklist'
              /\ (last'.to \in blacklist => StorageUnchanged)
       /\ (Called("remove_from_blacklist") /\ last'.caller = owner) =>
              /\ last'.res = "Ok"
              /\ last'.to \notin blacklist'
              /\ (last'.to \notin blacklist => StorageUnchanged)
       /\ last'.op \in {"add_to_blacklist", "remove_from_blacklist"} =>
              /\ \A a \in Accounts \ {last'.to} : (a \in blacklist') = (a \in blacklist)
              /\ UNCHANGED <<balances, owner, total_supply, allowances, paused>>]_vars

\* C17 witness: the owner has removed an account, and another account is
\* still listed.
C17_Witness ==
    /\ last.op = "remove_from_blacklist"
    /\ last.res = "Ok"
    /\ last.to \notin blacklist
    /\ blacklist # {}

\* The exact value of the receiver-side sums a call computes with unchecked
\* `+`: the balance the recipient has when it is read, plus the amount.
ReceiverSum(sender, receiver, amount) ==
    (IF receiver = sender THEN balances[receiver] - amount ELSE balances[receiver])
        + amount
BatchReceiverSum(sender, recipients, amount, r) ==
    (IF r = sender THEN balances[r] - amount * Len(recipients) ELSE balances[r])
        + amount * Occurrences(recipients, r)

\* C18: in every reachable state no balance exceeds total_supply; on every
\* transfer, transfer_from and batch_transfer call that passes its checks the
\* recipient's balance plus the amount fits the Balance range, and on every
\* burn call that passes its checks total_supply - amount is not negative.
C18_NoArithmeticFault ==
    /\ [](\A a \in Accounts : balances[a] <= total_supply)
    /\ [][/\ (Called("transfer") /\ last'.res \notin ErrorKinds) =>
                 ReceiverSum(last'.caller, last'.to, last'.amount) <= MaxBalance
          /\ (Called("transfer_from") /\ last'.res \notin ErrorKinds) =>
                 ReceiverSum(last'.from, last'.to, last'.amount) <= MaxBalance
          /\ (Called("batch_transfer") /\ last'.res \notin ErrorKinds) =>
                 \A r \in Accounts :
                    BatchReceiverSum(last'.caller, last'.recipients, last'.amount, r)
                       <= MaxBalance
          /\ (Called("burn") /\ last'.res \notin ErrorKinds) =>
                 total_supply - last'.amount >= 0]_vars

\* C19: allowance(A, S) changes only when A calls approve(S, v), which sets it
\* to v, or when S's transfer_from(A, _, v) succeeds, which lowers it by v.
\* A successful transfer_from(A, _, v) by S needs allowance(A, S) >= v > 0 and
\* takes at most v out of A's balance, so the allowance is what remains of the
\* last approved amount: S never moves more than that between two approvals,
\* and a spender A has approved nothing for (allowance 0) has every
\* transfer_from(A, _, v) refused.
C19_AllowanceBudget ==
    [][/\ \A k \in DOMAIN allowances :
             allowances'[k] # allowances[k] =>
                \/ /\ Called("approve")
                   /\ last'.caller = k[1] /\ last'.to = k[2]
                   /\ allowances'[k] = last'.amount
                \/ /\ Succeeded("transfer_from")
                   /\ last'.from = k[1] /\ last'.caller = k[2]
                   /\ allowances'[k] = allowances[k] - last'.amount
       /\ Succeeded("transfer_from") =>
             /\ last'.amount > 0
             /\ allowances[<<last'.from, last'.caller>>] >= last'.amount
             /\ allowances'[<<last'.from, last'.caller>>]
                   = allowances[<<last'.from, last'.caller>>] - last'.amount
             /\ balances'[last'.from] >= balances[last'.from] - last'.amount]_vars
C19_Witness ==
    /\ last.op = "transfer_from" /\ last.res = "Ok"
    /\ last.from # last.caller
    /\ allowances[<<last.from, last.caller>>] = 1

\* C20: a transfer, transfer_from or batch_transfer call, whoever makes it,
\* leaves the balance of every blacklisted account as it was; the balance of a
\* blacklisted account X changes only by a successful mint to X called by the
\* owner or a successful burn called by X.
C20_BlacklistedBalanceFrozen ==
    [][/\ last'.op \in TransferFamily =>
             \A x \in blacklist : balances'[x] = balances[x]
       /\ \A x \in blacklist :
             balances'[x] # balances[x] =>
                \/ Succeeded("mint") /\ last'.caller = owner /\ last'.to = x
                \/ Succeeded("burn") /\ last'.caller = x]_vars
C20_Witness ==
    /\ last.op = "transfer" /\ last.res = "AddressBlacklisted"
    /\ ~paused /\ last.to \in blacklist /\ last.caller \notin blacklist
    /\ last.amount # 0 /\ balances[last.caller] >= last.amount
    /\ balances[last.to] > 0

====
